---- MODULE Spec2Model ----
(***************************************************************************)
(* Batch dispatch of grid-metric tile jobs.                                *)
(*                                                                         *)
(*   hpc/dispatch-gridmetric-jobs.py   grid_metrics_chm_worker, dispatch   *)
(*                                     (ordered mode), main                *)
(*   lib/py/vogeler/extlib.py          dispatch (streaming mode)           *)
(*                                                                         *)
(* One behaviour is a sequence of batch runs over the same job list and    *)
(* the same ./export tree.  A run is either the hpc script (ordered mode)  *)
(* or a caller that fully consumes extlib.dispatch (streaming mode) with   *)
(* the same worker.                                                        *)
(***************************************************************************)
EXTENDS Integers, Sequences, FiniteSets, TLC

\* ------------------------------------------------------------------ bounds
MaxJobs == 2        \* longest job list in wkt.json
MaxRuns == 2        \* batch runs in one behaviour
MaxTasks == 3       \* largest SLURM_NTASKS the allocator hands out

\* ------------------------------------------------------------ descriptors
\* A job descriptor is one element of the JSON list: <<python type, str()>>.
POLY_A == <<"str", "POLYGON((0 0,1 0,1 1,0 1,0 0))">>
POLY_B == <<"str", "POLYGON((2 2,3 2,3 3,2 3,2 2))">>
NUM_17 == <<"int", "17">>

Descriptors == {POLY_A, POLY_B, NUM_17}

RECURSIVE SeqsUpTo(_, _)
SeqsUpTo(S, n) ==
    IF n = 0 THEN {<<>>}
    ELSE LET shorter == SeqsUpTo(S, n - 1)
         IN  shorter \cup {Append(s, x) : s \in {t \in shorter : Len(t) = n - 1}, x \in S}

JobLists == SeqsUpTo(Descriptors, MaxJobs)

\* str(poly_wkt): the text of a str is itself, of an int its decimal form.
Str(d) == d[2]

\* hashlib.sha1(...).hexdigest(), collision-free on its input string.
Sha1(s) == <<"sha1", s>>

\* Path("./export", poly_hash)
OutDirHashed(d) == Sha1(Str(d))
OutDirShared(d) == Sha1(Str(POLY_A))
OutDir(d) == OutDirHashed(d)

Digests == {OutDirHashed(d) : d \in Descriptors}

\* ------------------------------------------------------------- outcomes
\* What a future holds once its worker call is over.
Returned(rc) == [raised |-> "", none |-> FALSE, rc |-> rc]
None == [raised |-> "", none |-> TRUE, rc |-> 0]
Raised(e) == [raised |-> e, none |-> FALSE, rc |-> 0]
NoOutcome == [raised |-> "unset", none |-> FALSE, rc |-> 0]

Unset == 0          \* SLURM_NTASKS absent from the environment

MaxLas == 2         \* most *.laz files in LAS_DIR
MaxPrepRuns == 3    \* most runs of the preparation script

\* Values a job list read by json.load can hold next to WKT strings, each
\* with the text str() gives for it.
STR_17 == <<"str", "17">>
BOOL_TRUE == <<"bool", "True">>
STR_TRUE == <<"str", "True">>
NULL == <<"NoneType", "None">>
STR_NONE == <<"str", "None">>
FLOAT_1 == <<"float", "1.0">>
STR_1_0 == <<"str", "1.0">>
INT_1 == <<"int", "1">>

JsonValues ==
    {POLY_A, POLY_B, NUM_17, STR_17, BOOL_TRUE, STR_TRUE, NULL, STR_NONE,
     FLOAT_1, STR_1_0, INT_1}

NoDir == <<"none">>  \* out_dir not computed yet
NoFile == [exists |-> FALSE, features |-> 0]

VARIABLES
    SLURM_NTASKS,     \* os.environ['SLURM_NTASKS'], Unset when absent
    environ,          \* "ok" | "no_export_dir" | "no_cpus_per_task"
    wkt_json,         \* the job list persisted in ./wkt.json
    fs,               \* ./export/<digest>/ : [exists, DONE, artifacts]
    run,              \* number of runs started
    mode,             \* "ordered" | "streaming" | "none"
    log_bound,        \* streaming: extlib's module global `log` is bound
    pc,               \* "idle" | "collecting" | "unwinding" | "exited"
    futures,          \* one record per submitted job, in submission order
    done_order,       \* streaming: job indices in completion order
    results,          \* what the caller has received so far
    collected,        \* history: job index behind each element of results
    dispatch_end,     \* "none" | "returned" | "raised"
    exit_status,      \* process exit status of the script, -1 while running
    critical_logged,  \* excepthook wrote a critical record
    fs0,              \* history: fs when the current run started
    succeeded,        \* history: descriptors whose work completed in full
    id_jobs,          \* worker: the two descriptors whose out_dir is derived
    id_dirs,          \* worker: out_dir of each of the two, NoDir before
    prep_pc,          \* prep: "idle" | "catalog" | "assert" | "dtm" | "wkt" | "done"
    prep_run,         \* prep: number of runs started
    lidar_src_paths,  \* prep: number of *.laz files in LAS_DIR
    CTG_PATH,         \* prep: ./ctg.vpc : [exists, features]
    DTM_PATH,         \* prep: ./dtm.vrt exists
    wkt_path          \* prep: ./wkt.json exists

vars == <<SLURM_NTASKS, environ, wkt_json, fs, run, mode, log_bound, pc,
          futures, done_order, results, collected, dispatch_end,
          exit_status, critical_logged, fs0, succeeded,
          id_jobs, id_dirs,
          prep_pc, prep_run, lidar_src_paths, CTG_PATH, DTM_PATH, wkt_path>>

idvars == <<id_jobs, id_dirs>>
prepvars == <<prep_pc, prep_run, lidar_src_paths, CTG_PATH, DTM_PATH, wkt_path>>
envvars == <<SLURM_NTASKS, environ, wkt_json, idvars, prepvars>>
dispatchvars == <<SLURM_NTASKS, environ, wkt_json, fs, run, mode, log_bound,
                  pc, futures, done_order, results, collected, dispatch_end,
                  exit_status, critical_logged, fs0, succeeded>>

EmptyDir == [exists |-> FALSE, DONE |-> FALSE, artifacts |-> "none"]

Init ==
    /\ SLURM_NTASKS \in {Unset} \cup (1..MaxTasks)
    /\ environ \in {"ok", "no_export_dir", "no_cpus_per_task"}
    /\ wkt_json \in JobLists
    /\ fs = [h \in Digests |-> EmptyDir]
    /\ run = 0
    /\ mode = "none"
    /\ log_bound = FALSE
    /\ pc = "idle"
    /\ futures = <<>>
    /\ done_order = <<>>
    /\ results = <<>>
    /\ collected = <<>>
    /\ dispatch_end = "none"
    /\ exit_status = -1
    /\ critical_logged = FALSE
    /\ fs0 = fs
    /\ succeeded = {}
    /\ id_jobs = <<POLY_A, POLY_A>>
    /\ id_dirs = <<NoDir, NoDir>>
    /\ prep_pc = "idle"
    /\ prep_run = 0
    /\ lidar_src_paths = 0
    /\ CTG_PATH = NoFile
    /\ DTM_PATH = FALSE
    /\ wkt_path = FALSE

\* ----------------------------------------------------- worker: the code
\* MAX_WORKERS = int(os.environ['SLURM_NTASKS']) - 1
MAX_WORKERS == SLURM_NTASKS - 1

\* ProcessPoolExecutor(max_workers=max_workers) raises ValueError unless
\* max_workers is greater than 0.
PoolRejectsNegative(max_workers) == max_workers < 0
PoolRejects(max_workers) == max_workers <= 0

\* ProcessPoolExecutor(max_workers=max_workers): number of worker processes.
PoolSizeOneMore(max_workers) == max_workers + 1
PoolSize(max_workers) == max_workers

\* if (out_dir / "DONE").exists():
GuardOtherName(dir) == FALSE    \* looks for a file the command never writes
Guard(dir) == dir.DONE

\* rc = p.returncode ... return rc
WorkerReturnZero(rc) == Returned(0)
WorkerReturn(rc) == Returned(rc)

\* log_f.write("Found DONE file (job already complete)\n") on a file opened
\* 'ab': a str is not bytes-like, so the write raises and `rc = None` is
\* never reached.
SkipBranch == Raised("TypeError")

\* log_header / log_footer
LogHeader == "JOB"
LogFooter(rc) == IF rc = 0 THEN "EXIT CODE: 0" ELSE "EXIT CODE: 1"
CmdOutput == "OUT"

\* A submitted job.  wrote is what its worker call has appended to the
\* job's log file (opened 'ab') so far.
\* calls counts the times a pool process has called the worker on it.
Pending == [state |-> "pending", ctx |-> 0, phase |-> "none",
            saw_done |-> "unchecked", launched |-> FALSE, wrote |-> <<>>,
            calls |-> 0, result |-> NoOutcome]

\* The worker call is over: the future is done, with the value returned or
\* the exception raised, and stays so.
FinishRetry(f, outcome) ==
    IF outcome.raised # "" \/ (~outcome.none /\ outcome.rc # 0)
    THEN [f EXCEPT !.state = "pending", !.ctx = 0, !.phase = "none"]
    ELSE [f EXCEPT !.state = "finished", !.ctx = 0, !.phase = "none", !.result = outcome]
Finish(f, outcome) ==
    [f EXCEPT !.state = "finished", !.ctx = 0, !.phase = "none", !.result = outcome]

\* out_dir.mkdir(exist_ok=True): an existing directory is left as it is.
MkdirFresh(dir) == [EmptyDir EXCEPT !.exists = TRUE]
Mkdir(dir) == [dir EXCEPT !.exists = TRUE]

\* grid_metrics_chm_worker up to and including sp.run's launch of the
\* command.  Gives the directory record after the step and the future after
\* the step (finished when the worker raised, running when the command was
\* launched).
WorkerStart(d, dir, f) ==
    IF environ = "no_export_dir"
    THEN \* out_dir.mkdir(exist_ok=True) without parents
         [dir |-> dir, f |-> Finish(f, Raised("FileNotFoundError"))]
    ELSE IF environ = "no_cpus_per_task"
    THEN \* os.environ["SLURM_CPUS_PER_TASK"] while building cmd
         [dir |-> Mkdir(dir), f |-> Finish(f, Raised("KeyError"))]
    ELSE LET opened == Mkdir(dir)
             seen == [f EXCEPT !.wrote = Append(@, LogHeader),
                               !.saw_done = IF dir.DONE THEN "yes" ELSE "no"]
         IN  IF Guard(dir)
             THEN [dir |-> opened, f |-> Finish(seen, SkipBranch)]
             ELSE IF d[1] # "str"
             THEN \* sp.run refuses a cmd holding a non-str argument
                  [dir |-> opened, f |-> Finish(seen, Raised("TypeError"))]
             ELSE [dir |-> [opened EXCEPT !.artifacts =
                                IF @ = "none" THEN "partial" ELSE @],
                   f |-> [seen EXCEPT !.phase = "work", !.launched = TRUE]]

\* Footer and return once the command has exited with rc.
WorkerEnd(f, rc) ==
    Finish([f EXCEPT !.wrote = @ \o <<CmdOutput, LogFooter(rc)>>], WorkerReturn(rc))

\* -------------------------------------------------- the pool (concurrent.futures)
Running == {i \in DOMAIN futures : futures[i].state = "running"}
PendingJobs == {i \in DOMAIN futures : futures[i].state = "pending"}
Idle(w) == \A i \in Running : futures[i].ctx # w
AllFinished == \A i \in DOMAIN futures : futures[i].state = "finished"

\* as_completed(futures_jobs) hands out futures in the order they finish;
\* only extlib.dispatch keeps that order.
Completed(i) == IF mode = "streaming" THEN Append(done_order, i) ELSE done_order

\* An idle worker process takes the head of the call queue and runs the
\* worker function on it.  The processes are interchangeable: the idle one
\* with the lowest number takes it.
PoolStart(i, w) ==
    /\ pc \in {"collecting", "unwinding"}
    /\ i \in PendingJobs
    /\ \A j \in PendingJobs : i <= j
    /\ w \in 1..PoolSize(MAX_WORKERS)
    /\ Idle(w)
    /\ \A v \in 1..(w - 1) : ~Idle(v)
    /\ LET d == wkt_json[i]
           h == OutDir(d)
           r == WorkerStart(d, fs[h], [futures[i] EXCEPT !.state = "running", !.ctx = w,
                                                          !.calls = @ + 1])
       IN  /\ fs' = [fs EXCEPT ![h] = r.dir]
           /\ futures' = [futures EXCEPT ![i] = r.f]
           /\ done_order' = IF r.f.state = "finished" THEN Completed(i) ELSE done_order
    /\ UNCHANGED <<envvars, run, mode, log_bound, pc, results, collected,
                   dispatch_end, exit_status, critical_logged, fs0, succeeded>>

\* ------------------------------------ the external command (gen-gridmet+chms.R)
\* The command finishes the work it was launched for.
CmdWork(i) ==
    /\ i \in Running
    /\ futures[i].phase = "work"
    /\ LET d == wkt_json[i]
           h == OutDir(d)
       IN  /\ fs' = [fs EXCEPT ![h].artifacts = "complete"]
           /\ succeeded' = succeeded \cup {d}
    /\ futures' = [futures EXCEPT ![i].phase = "worked"]
    /\ UNCHANGED <<envvars, run, mode, log_bound, pc, done_order, results,
                   collected, dispatch_end, exit_status, critical_logged, fs0>>

\* The command writes DONE as its last step and exits 0; the worker writes
\* the footer and returns.
CmdExitOk(i) ==
    /\ i \in Running
    /\ futures[i].phase = "worked"
    /\ fs' = [fs EXCEPT ![OutDir(wkt_json[i])].DONE = TRUE]
    /\ futures' = [futures EXCEPT ![i] = WorkerEnd(@, 0)]
    /\ done_order' = Completed(i)
    /\ UNCHANGED <<envvars, run, mode, log_bound, pc, results, collected,
                   dispatch_end, exit_status, critical_logged, fs0, succeeded>>

\* The command fails (or is killed) before it wrote DONE and exits non-zero.
CmdExitFail(i) ==
    /\ i \in Running
    /\ futures[i].phase \in {"work", "worked"}
    /\ futures' = [futures EXCEPT ![i] = WorkerEnd(@, 1)]
    /\ done_order' = Completed(i)
    /\ UNCHANGED <<envvars, fs, run, mode, log_bound, pc, results, collected,
                   dispatch_end, exit_status, critical_logged, fs0, succeeded>>

\* ------------------------------------------------------------- dispatch
N == Len(wkt_json)

\* with ProcessPoolExecutor(...) as executor: leaving the block calls
\* shutdown(wait=True), which returns once every submitted job is over.
ShutdownNoWait == TRUE
ShutdownMayReturn == AllFinished

\* Which future the caller reads next: futures[k] in ordered mode
\* (results = [f.result() for f in futures]), the k-th to complete in
\* streaming mode (for f in as_completed(futures_jobs)).
CollectIndexReversed(m, k) == IF m = "ordered" THEN N + 1 - k ELSE done_order[k]
CollectIndex(m, k) == IF m = "ordered" THEN k ELSE done_order[k]

CollectReady(m, k) ==
    IF m = "ordered" THEN futures[k].state = "finished" ELSE Len(done_order) >= k

\* What the caller receives for job i: the outcome in ordered mode, the
\* pair (futures_jobs[f], f.result()) in streaming mode.
Entry(m, i) ==
    IF m = "ordered" THEN futures[i].result ELSE <<wkt_json[i], futures[i].result>>

\* The script ends: status 0 after log.info("Finished"); an uncaught
\* exception goes through sys.excepthook and the interpreter exits 1.
ScriptExit(m, failed) == IF m # "ordered" THEN -1 ELSE IF failed THEN 1 ELSE 0

\* A run starts.  Ordered mode is the hpc script from its first line; the
\* streaming caller passes the same MAX_WORKERS to extlib.dispatch.
StartRun(m, lb) ==
    /\ pc \in {"idle", "exited"}
    /\ run < MaxRuns
    /\ m = "ordered" => ~lb
    /\ m = "streaming" => SLURM_NTASKS # Unset
    /\ run' = run + 1
    /\ mode' = m
    /\ log_bound' = lb
    /\ fs0' = fs
    /\ done_order' = <<>>
    /\ results' = <<>>
    /\ collected' = <<>>
    /\ IF SLURM_NTASKS = Unset
       THEN \* KeyError at import, before main() installs the hook
            /\ pc' = "exited"
            /\ futures' = <<>>
            /\ dispatch_end' = "none"
            /\ exit_status' = 1
            /\ critical_logged' = FALSE
       ELSE IF PoolRejects(MAX_WORKERS)
       THEN \* ProcessPoolExecutor: ValueError, max_workers must be > 0
            /\ pc' = "exited"
            /\ futures' = <<>>
            /\ dispatch_end' = "raised"
            /\ exit_status' = ScriptExit(m, TRUE)
            /\ critical_logged' = (m = "ordered")
       ELSE \* executor.submit(worker, j) for j in jobs
            /\ pc' = "collecting"
            /\ futures' = [i \in 1..N |-> Pending]
            /\ dispatch_end' = "none"
            /\ exit_status' = -1
            /\ critical_logged' = FALSE
    /\ UNCHANGED <<envvars, fs, succeeded>>

\* The caller takes the next outcome; a worker's exception is re-raised by
\* f.result() and leaves the with block.
Collect ==
    /\ pc = "collecting"
    /\ Len(results) < N
    /\ LET k == Len(results) + 1
       IN  /\ CollectReady(mode, k)
           /\ LET i == CollectIndex(mode, k)
              IN  IF mode = "streaming" /\ ~log_bound
                  THEN \* log.info(...): NameError, extlib binds no `log`
                       /\ pc' = "unwinding"
                       /\ UNCHANGED <<results, collected>>
                  ELSE IF futures[i].result.raised # ""
                  THEN /\ pc' = "unwinding"
                       /\ UNCHANGED <<results, collected>>
                  ELSE /\ results' = Append(results, Entry(mode, i))
                       /\ collected' = Append(collected, i)
                       /\ pc' = pc
    /\ UNCHANGED <<envvars, fs, run, mode, log_bound, futures, done_order,
                   dispatch_end, exit_status, critical_logged, fs0, succeeded>>

\* Every outcome was taken: the with block ends, dispatch returns (the
\* generator is exhausted), the script logs "Finished" and exits.
Return ==
    /\ pc = "collecting"
    /\ Len(results) = N
    /\ ShutdownMayReturn
    /\ pc' = "exited"
    /\ dispatch_end' = "returned"
    /\ exit_status' = ScriptExit(mode, FALSE)
    /\ UNCHANGED <<envvars, fs, run, mode, log_bound, futures, done_order,
                   results, collected, critical_logged, fs0, succeeded>>

\* The exception leaves the with block once shutdown has waited, and
\* reaches the caller; in the script nothing catches it.
Unwind ==
    /\ pc = "unwinding"
    /\ ShutdownMayReturn
    /\ pc' = "exited"
    /\ dispatch_end' = "raised"
    /\ exit_status' = ScriptExit(mode, TRUE)
    /\ critical_logged' = (mode = "ordered")
    /\ UNCHANGED <<envvars, fs, run, mode, log_bound, futures, done_order,
                   results, collected, fs0, succeeded>>

Next ==
    \/ \E m \in {"ordered", "streaming"}, lb \in BOOLEAN : StartRun(m, lb)
    \/ \E i \in 1..MaxJobs, w \in 1..MaxTasks : PoolStart(i, w)
    \/ \E i \in 1..MaxJobs : CmdWork(i)
    \/ \E i \in 1..MaxJobs : CmdExitOk(i)
    \/ \E i \in 1..MaxJobs : CmdExitFail(i)
    \/ Collect
    \/ Return
    \/ Unwind

Spec == Init /\ [][Next]_vars

\* ------------------------------------------- worker: deriving out_dir
\* The dispatcher at rest: nothing submitted, nothing run.
DispatchIdle ==
    /\ SLURM_NTASKS = Unset
    /\ environ = "ok"
    /\ wkt_json = <<>>
    /\ fs = [h \in Digests |-> EmptyDir]
    /\ run = 0
    /\ mode = "none"
    /\ log_bound = FALSE
    /\ pc = "idle"
    /\ futures = <<>>
    /\ done_order = <<>>
    /\ results = <<>>
    /\ collected = <<>>
    /\ dispatch_end = "none"
    /\ exit_status = -1
    /\ critical_logged = FALSE
    /\ fs0 = fs
    /\ succeeded = {}

PrepIdle ==
    /\ prep_pc = "idle"
    /\ prep_run = 0
    /\ lidar_src_paths = 0
    /\ CTG_PATH = NoFile
    /\ DTM_PATH = FALSE
    /\ wkt_path = FALSE

\* Two worker calls, in one run or in two, each given one value of the list.
InitIdentity ==
    /\ DispatchIdle
    /\ PrepIdle
    /\ id_jobs \in JsonValues \X JsonValues
    /\ id_dirs = <<NoDir, NoDir>>

\* poly_hash = sha1(bytes(str(poly_wkt), 'utf8')); out_dir = ./export/<hash>
WorkerOutDir(k) ==
    /\ id_dirs[k] = NoDir
    /\ id_dirs' = [id_dirs EXCEPT ![k] = OutDir(id_jobs[k])]
    /\ UNCHANGED <<dispatchvars, prepvars, id_jobs>>

NextIdentity == \E k \in 1..2 : WorkerOutDir(k)

SpecIdentity == InitIdentity /\ [][NextIdentity]_vars

\* ------------------------------------------------ prep-gridmetric-jobs.py
InitPrep ==
    /\ DispatchIdle
    /\ id_jobs = <<POLY_A, POLY_A>>
    /\ id_dirs = <<NoDir, NoDir>>
    /\ prep_pc = "idle"
    /\ prep_run = 0
    /\ lidar_src_paths \in 0..MaxLas
    /\ CTG_PATH = NoFile
    /\ DTM_PATH = FALSE
    /\ wkt_path = FALSE

\* main() is entered.
PrepStart ==
    /\ prep_pc = "idle"
    /\ prep_run < MaxPrepRuns
    /\ prep_run' = prep_run + 1
    /\ prep_pc' = "catalog"
    /\ UNCHANGED <<dispatchvars, idvars, lidar_src_paths, CTG_PATH, DTM_PATH,
                   wkt_path>>

\* if not CTG_PATH.exists(): false, the whole block is skipped.
PrepCatalogSkip ==
    /\ prep_pc = "catalog"
    /\ CTG_PATH.exists
    /\ prep_pc' = "dtm"
    /\ UNCHANGED <<dispatchvars, idvars, prep_run, lidar_src_paths, CTG_PATH,
                   DTM_PATH, wkt_path>>

\* build_vpc(lidar_src_paths, CTG_PATH): pdal_wrench leaves `written` on
\* disk (nothing, or a catalog of some of the files) and either exits 0,
\* exits non-zero (check=True raises), or the run is killed meanwhile.
PrepBuildVpc(written, end) ==
    /\ prep_pc = "catalog"
    /\ ~CTG_PATH.exists
    /\ written.features <= lidar_src_paths
    /\ CTG_PATH' = written
    /\ prep_pc' = IF end = "ok" THEN "assert" ELSE "idle"
    /\ UNCHANGED <<dispatchvars, idvars, prep_run, lidar_src_paths, DTM_PATH,
                   wkt_path>>

\* vpc_feat_count = len(json.loads(CTG_PATH.read_text())['features'])
\* assert len(lidar_src_paths) == vpc_feat_count
PrepAssert ==
    /\ prep_pc = "assert"
    /\ prep_pc' = IF CTG_PATH.exists /\ CTG_PATH.features = lidar_src_paths
                  THEN "dtm" ELSE "idle"
    /\ UNCHANGED <<dispatchvars, idvars, prep_run, lidar_src_paths, CTG_PATH,
                   DTM_PATH, wkt_path>>

\* if not DTM_PATH.exists(): gdal_build_vrt(...), which may raise.
PrepDtm(ok) ==
    /\ prep_pc = "dtm"
    /\ IF DTM_PATH
         THEN prep_pc' = "wkt" /\ UNCHANGED DTM_PATH
         ELSE /\ DTM_PATH' = ok
              /\ prep_pc' = IF ok THEN "wkt" ELSE "idle"
    /\ UNCHANGED <<dispatchvars, idvars, prep_run, lidar_src_paths, CTG_PATH,
                   wkt_path>>

\* if not wkt_path.exists(): read the tiles (may raise), then write the list.
PrepWkt(ok) ==
    /\ prep_pc = "wkt"
    /\ IF wkt_path
         THEN prep_pc' = "done" /\ UNCHANGED wkt_path
         ELSE /\ wkt_path' = ok
              /\ prep_pc' = IF ok THEN "done" ELSE "idle"
    /\ UNCHANGED <<dispatchvars, idvars, prep_run, lidar_src_paths, CTG_PATH,
                   DTM_PATH>>

\* log.info("DONE") has been written; main() returns.
PrepReturn ==
    /\ prep_pc = "done"
    /\ prep_pc' = "idle"
    /\ UNCHANGED <<dispatchvars, idvars, prep_run, lidar_src_paths, CTG_PATH,
                   DTM_PATH, wkt_path>>

VpcFiles == {NoFile} \cup {[exists |-> TRUE, features |-> n] : n \in 0..MaxLas}

NextPrep ==
    \/ PrepStart
    \/ PrepCatalogSkip
    \/ \E written \in VpcFiles, end \in {"ok", "error", "killed"} :
          PrepBuildVpc(written, end)
    \/ PrepAssert
    \/ \E ok \in BOOLEAN : PrepDtm(ok)
    \/ \E ok \in BOOLEAN : PrepWkt(ok)
    \/ PrepReturn

SpecPrep == InitPrep /\ [][NextPrep]_vars

\* ------------------------------------------------------------ vocabulary
Marker(d) == fs[OutDir(d)].DONE
Over(i) == futures[i].state = "finished"
Failed(i) ==
    /\ Over(i)
    /\ \/ futures[i].result.raised # ""
       \/ ~futures[i].result.none /\ futures[i].result.rc # 0
Submitted == futures # <<>>
DispatchOver == pc = "exited" /\ dispatch_end # "none"
\* Every descriptor of the job list is a string, as the prep script writes it.
WellFormed == \A i \in 1..N : wkt_json[i][1] = "str"

\* ---------------------------------------------------------------- claims

\* C1: a second ordered-mode run over a job list whose jobs all have their
\* DONE marker returns one outcome per job, each of them None, and leaves
\* the markers and artifacts as the first run left them.
C1_SecondRunAllSkipped ==
    (/\ run >= 2
     /\ mode = "ordered"
     /\ MAX_WORKERS >= 1
     /\ DispatchOver
     /\ \A i \in 1..N : fs0[OutDir(wkt_json[i])].DONE)
    => /\ dispatch_end = "returned"
       /\ Len(results) = N
       /\ \A i \in 1..N : results[i] = None
       /\ fs = fs0

\* C2: a worker call that found the DONE marker at its guard never launches
\* the external command.
C2_GuardBlocksLaunch ==
    \A i \in DOMAIN futures :
        futures[i].saw_done = "yes" => ~futures[i].launched /\ futures[i].phase = "none"

C2_Witness ==
    \E i \in DOMAIN futures : futures[i].saw_done = "yes" /\ Over(i)

\* C3: a worker call that returns 0 leaves the job's DONE marker behind, so
\* after a run in which every job returned 0 every job has its marker.
C3_MarkerWhenReturnedZero ==
    /\ \A i \in DOMAIN futures :
           Over(i) /\ futures[i].result = Returned(0) => Marker(wkt_json[i])
    /\ (dispatch_end = "returned" /\ \A i \in 1..N : futures[i].result = Returned(0))
       => \A i \in 1..N : Marker(wkt_json[i])

C3_Witness ==
    /\ run = 1
    /\ N = 2
    /\ dispatch_end = "returned"
    /\ \A i \in 1..N : futures[i].result = Returned(0) /\ ~fs0[OutDir(wkt_json[i])].DONE

C5_OrderedAligned ==
    mode = "ordered" =>
        /\ \A k \in 1..Len(results) : results[k] = futures[k].result
        /\ dispatch_end = "returned" => Len(results) = N

C5_Witness ==
    /\ mode = "ordered"
    /\ dispatch_end = "returned"
    /\ N = 2
    /\ results[1] = Returned(1)
    /\ results[2] = Returned(0)

\* C6: a fully consumed streaming dispatch over N jobs yields exactly N
\* pairs, one per submitted job, each carrying that job's descriptor and
\* outcome, also when jobs fail (stated for a caller that bound extlib's
\* logger and a job list of strings).
C6_StreamingComplete ==
    (mode = "streaming" /\ log_bound /\ WellFormed /\ pc = "exited" /\ Submitted)
    => /\ Len(results) = N
       /\ \A i \in 1..N : \E k \in 1..Len(results) :
              collected[k] = i /\ results[k] = <<wkt_json[i], futures[i].result>>

\* C7: in both modes a failing job takes no sibling down: when dispatch is
\* over, every submitted job has been run to its end.
C7_SiblingsRunToCompletion ==
    (pc = "exited" /\ Submitted) => \A i \in DOMAIN futures : Over(i)

C7_Witness ==
    /\ pc = "exited"
    /\ MAX_WORKERS = 1
    /\ N = 2
    /\ futures[1].result.raised # ""
    /\ futures[2].result = Returned(0)
    /\ futures[2].launched

\* C8: the caller receives one outcome per job, the failed ones included:
\* a failing job does not abort the batch or lose its siblings' outcomes
\* (stated for a job list of strings and a bound extlib logger).
C8_OneOutcomePerJob ==
    (pc = "exited" /\ Submitted /\ WellFormed /\ (mode = "streaming" => log_bound))
    => /\ Len(results) = N
       /\ \A i \in 1..N : \E k \in 1..Len(results) :
              collected[k] = i /\ results[k] = Entry(mode, i)

\* C9: never more than max_workers jobs execute at once, no execution
\* context runs two jobs at once, and the other jobs wait in the queue.
C9_BoundedConcurrency ==
    /\ Running # {} => Cardinality(Running) <= MAX_WORKERS
    /\ \A i \in Running : futures[i].ctx \in 1..MAX_WORKERS
    /\ \A i, j \in Running : i # j => futures[i].ctx # futures[j].ctx
    /\ \A i \in PendingJobs : futures[i].wrote = <<>> /\ ~futures[i].launched

C9_Witness ==
    /\ Cardinality(Running) = MAX_WORKERS
    /\ PendingJobs # {}

\* C10: the script ends with a non-zero status whenever a job of the batch
\* ended with a non-zero exit code or an exception.
C10_AggregateStatus ==
    (mode = "ordered" /\ pc = "exited" /\ \E i \in DOMAIN futures : Failed(i))
    => exit_status # 0

\* C11: no two jobs in flight at the same time write to the same directory
\* or log file, whatever the job list, repeated descriptors included.
C11_WriteExclusive ==
    \A i, j \in Running :
        i # j => OutDir(wkt_json[i]) # OutDir(wkt_json[j])

\* C12: a job list holding a descriptor that is not a string is rejected
\* before any job runs: no worker call starts, no command is launched.
C12_MalformedFatalAtStart ==
    (mode = "ordered" /\ ~WellFormed) =>
        \A i \in DOMAIN futures :
            futures[i].calls = 0 /\ ~futures[i].launched /\ futures[i].wrote = <<>>

\* C13: whenever the script ends on an uncaught failure, at start-up
\* included, a critical record was logged before it exited non-zero.
C13_NoSilentFailure ==
    (mode = "ordered" /\ pc = "exited" /\ exit_status # 0) => critical_logged

\* C14: within one dispatch call every job of the list is submitted once and
\* its worker is called at most once, also when the call fails.
C14_NoRetry ==
    /\ Submitted => Len(futures) = N
    /\ \A i \in DOMAIN futures :
           /\ futures[i].calls <= 1
           /\ futures[i].state # "pending" => futures[i].calls = 1

C14_Witness ==
    /\ pc = "exited"
    /\ N = 2
    /\ Submitted
    /\ Failed(1)
    /\ futures[1].calls = 1
    /\ futures[2].result = Returned(0)

\* C15: every worker call, skipping or not, appends to the job's log a
\* header, the output and a footer whose outcome code is the value the
\* call returns (stated for string descriptors in a complete environment).
FooterOf(outcome) == IF outcome.none THEN "EXIT CODE: None" ELSE LogFooter(outcome.rc)

C15_LogStructure ==
    \A i \in DOMAIN futures :
        (Over(i) /\ environ = "ok" /\ wkt_json[i][1] = "str")
        => /\ futures[i].result.raised = ""
           /\ Len(futures[i].wrote) >= 2
           /\ futures[i].wrote[1] = LogHeader
           /\ futures[i].wrote[Len(futures[i].wrote)] = FooterOf(futures[i].result)

\* C16: a run resumed after a partial failure launches the command once for
\* each job without a marker, not at all for a job with one, and returns
\* an outcome for every job, None for the marked ones.
MarkedAtStart(i) == fs0[OutDir(wkt_json[i])].DONE

C16_ResumedRun ==
    (/\ run >= 2
     /\ mode = "ordered"
     /\ DispatchOver
     /\ WellFormed
     /\ environ = "ok"
     /\ \E i \in 1..N : MarkedAtStart(i)
     /\ \E i \in 1..N : ~MarkedAtStart(i))
    => /\ \A i \in 1..N : futures[i].launched = ~MarkedAtStart(i)
       /\ dispatch_end = "returned"
       /\ Len(results) = N
       /\ \A i \in 1..N : MarkedAtStart(i) => results[i] = None

\* C17: with max_workers below 1, as for an allocation of a single task,
\* dispatch fails before any job is submitted: no worker call, no outcome,
\* no change under ./export.
C17_MaxWorkersPrecondition ==
    (run >= 1 /\ SLURM_NTASKS # Unset /\ MAX_WORKERS < 1)
    => /\ pc = "exited"
       /\ dispatch_end = "raised"
       /\ futures = <<>>
       /\ results = <<>>
       /\ fs = [h \in Digests |-> EmptyDir]

C17_Witness ==
    /\ run >= 1
    /\ SLURM_NTASKS = 1
    /\ N = 2
    /\ dispatch_end = "raised"

\* C19: no step of the dispatcher or of a worker call removes a DONE marker:
\* a marker that is present stays present, across runs too.
C19_MarkerPersists ==
    [][\A h \in Digests : fs[h].DONE => fs'[h].DONE]_vars

C19_Witness ==
    /\ run = 2
    /\ \E i \in DOMAIN futures :
           Over(i) /\ MarkedAtStart(i) /\ futures[i].calls = 1 /\ Marker(wkt_json[i])

\* Both worker calls have computed their out_dir.
IdDerived == id_dirs[1] # NoDir /\ id_dirs[2] # NoDir
\* What does hold of out_dir: equal descriptors share it, and descriptors
\* whose str() texts differ do not.
SameDescriptorSameDir ==
    (IdDerived /\ id_jobs[1] = id_jobs[2]) => id_dirs[1] = id_dirs[2]
DistinctTextDistinctDir ==
    (IdDerived /\ Str(id_jobs[1]) # Str(id_jobs[2])) => id_dirs[1] # id_dirs[2]

\* C18: two jobs with identical descriptors get the same output directory
\* (and so the same marker), and two jobs whose descriptors are distinct
\* values of the job list get distinct output directories.
C18_JobIdentity ==
    IdDerived => (id_jobs[1] = id_jobs[2] <=> id_dirs[1] = id_dirs[2])

\* C20: whenever a run of the preparation script reaches its final DONE
\* line, ./ctg.vpc exists and has as many features as LAS_DIR has *.laz
\* files, whatever earlier runs did.
C20_CatalogCompleteAtDone ==
    prep_pc = "done" =>
        CTG_PATH.exists /\ CTG_PATH.features = lidar_src_paths
\* An existing catalog, mosaic or job list is left as it is.
NeverRebuilt ==
    [][/\ CTG_PATH.exists => CTG_PATH' = CTG_PATH
       /\ DTM_PATH => DTM_PATH'
       /\ wkt_path => wkt_path']_vars

====
